---------------------------- MODULE Spec2Model ----------------------------
(***************************************************************************)
(* Model of src/handler.py: the serverless handler that waits for the      *)
(* ComfyUI service, opens the push channel, submits a workflow, listens    *)
(* for the completion signal, fetches the history record and retrieves     *)
(* every referenced image.                                                 *)
(*                                                                         *)
(* One frame (inv[i]) holds the locals of one running handler(job) call    *)
(* together with a log of the requests it has issued.  Every request to    *)
(* the service is one step; the service's answer is the step's input.      *)
(* Input images of the job (handler.py 85-92) are written to the file      *)
(* system (files), one step per image; SpecInput enumerates such jobs.     *)
(***************************************************************************)
EXTENDS Naturals, Sequences, FiniteSets, TLC

\* ------------------------------------------------------------------ bounds
MaxAttempts == 120
MaxRecv == 3
MaxNodes == 2
MaxRefs == 2
MaxImages == 2

\* ------------------------------------------------------------- value model
Procs == {1, 2}

Absent == "<absent>"
Null == "<null>"

PromptIds == {"", "p1", "p2"}
Filenames == {"a.png", "b.png"}
Payloads == {<<137, 80>>}

SeqsUpTo(S, n) == UNION {[1..k -> S] : k \in 0..n}

\* ---- base64.b64encode(raw): sextets 0..63, 64 stands for the pad "="
Pad == 64

B64Group(b) ==
    LET n  == Len(b)
        b1 == b[1]
        b2 == IF n >= 2 THEN b[2] ELSE 0
        b3 == IF n >= 3 THEN b[3] ELSE 0
    IN  << b1 \div 4,
           (b1 % 4) * 16 + (b2 \div 16),
           IF n >= 2 THEN (b2 % 16) * 4 + (b3 \div 64) ELSE Pad,
           IF n >= 3 THEN b3 % 64 ELSE Pad >>

RECURSIVE B64Encode(_)
B64Encode(raw) ==
    IF raw = <<>> THEN <<>>
    ELSE IF Len(raw) <= 3 THEN B64Group(raw)
    ELSE B64Group(SubSeq(raw, 1, 3)) \o B64Encode(SubSeq(raw, 4, Len(raw)))

\* ---- base64.b64decode(s) of a sextet string: the bytes, or binascii.Error
\* when the padding is incorrect
Decoded(ok, raw) == [ok |-> ok, raw |-> raw]

B64Quad(q) ==
    LET c1 == q[1] * 4 + (q[2] \div 16)
        c2 == (q[2] % 16) * 16 + (q[3] \div 4)
        c3 == (q[3] % 4) * 64 + q[4]
    IN  IF q[3] = Pad THEN << c1 >>
        ELSE IF q[4] = Pad THEN << c1, c2 >>
        ELSE << c1, c2, c3 >>

RECURSIVE B64Decode(_)
B64Decode(s) ==
    IF s = <<>> THEN Decoded(TRUE, <<>>)
    ELSE IF Len(s) < 4 \/ s[1] = Pad \/ s[2] = Pad \/ (s[3] = Pad /\ s[4] # Pad)
         THEN Decoded(FALSE, <<>>)
    ELSE LET rest == B64Decode(SubSeq(s, 5, Len(s)))
         IN  IF s[4] = Pad
             THEN Decoded(TRUE, B64Quad(SubSeq(s, 1, 4)))  \* data after the pad is dropped
             ELSE Decoded(rest.ok, B64Quad(SubSeq(s, 1, 4)) \o rest.raw)

\* ---- paths are sequences of segments, "/" first when absolute
INPUT_DIR == << "/", "input" >>

\* os.path.join(a, b): an absolute b discards a
Join(a, b) == IF b # <<>> /\ Head(b) = "/" THEN b ELSE a \o b

\* ---- input images of a job: {"name": ..., "image": <base64>}
Names == { << "a.png" >>, << "b.png" >>, << "/", "tmp", "a.png" >> }

Base64Strings == { B64Encode(<< 1 >>), B64Encode(<< 2, 3 >>), << 0 >> }

Image(name, image) == [name |-> name, image |-> image]

Images == { Image(n, b) : n \in Names, b \in Base64Strings }

\* ---- files on disk
File(raw) == [exists |-> TRUE, data |-> raw]

NoFile == [exists |-> FALSE, data |-> <<>>]

Paths == { Join(INPUT_DIR, n) : n \in Names }

\* ---- push-channel messages as ws.recv() hands them over
Msg(kind, json, type, data, node, pid) ==
    [kind |-> kind, json |-> json, type |-> type, data |-> data,
     node |-> node, pid |-> pid]

NoMsg == Msg("none", Absent, Absent, Absent, Absent, Absent)

Messages ==
    { Msg("binary", Absent, Absent, Absent, Absent, Absent),
      Msg("text", "invalid", Absent, Absent, Absent, Absent),
      Msg("text", "object", Absent, Absent, Absent, Absent),
      Msg("text", "object", "status", "object", Absent, Absent),
      Msg("text", "object", "executing", Absent, Absent, Absent),
      Msg("text", "object", "executing", "object", Absent, Absent),
      Msg("text", "object", "executing", "object", Null, Absent) }
    \cup { Msg("text", "object", "executed", "object", Null, p) : p \in PromptIds }
    \cup { Msg("text", "object", "executing", "object", "n1", p) :
             p \in PromptIds \cup {Absent} }
    \cup { Msg("text", "object", "executing", "object", Null, p) : p \in PromptIds }

\* the notifications exchanged between concurrent invocations
ConcMessages ==
    { Msg("binary", Absent, Absent, Absent, Absent, Absent) }
    \cup { Msg("text", "object", "executing", "object", n, p) :
             n \in {Null, "n1"}, p \in {"p1", "p2"} }

\* ---- answers of POST /prompt
Response(status, pid) == [status |-> status, prompt_id |-> pid]

PromptResponses ==
    { Response("error", Absent), Response("ok", Absent) }
    \cup { Response("ok", p) : p \in PromptIds }

ConcPromptResponses == { Response("ok", p) : p \in {"p1", "p2"} }

\* ---- answers of GET /history/<prompt_id>
Ref(f) == [filename |-> f, subfolder |-> "", type |-> "output"]

Refs == { Ref(f) : f \in Filenames }

Node(hasImages, images) == [hasImages |-> hasImages, images |-> images]

NodeDescs ==
    { Node(FALSE, <<>>) } \cup { Node(TRUE, s) : s \in SeqsUpTo(Refs, MaxRefs) }

Record(hasOutputs, outputs) == [hasOutputs |-> hasOutputs, outputs |-> outputs]

NoHistory == Record(FALSE, <<>>)

Records ==
    { Record(FALSE, <<>>) }
    \cup { Record(TRUE, o) : o \in SeqsUpTo(NodeDescs, MaxNodes) }

HistoryResponse(status, rec) == [status |-> status, record |-> rec]

HistoryResponses ==
    { HistoryResponse("error", NoHistory), HistoryResponse("nokey", NoHistory) }
    \cup { HistoryResponse("ok", r) : r \in Records }

ConcHistoryResponses ==
    { HistoryResponse("ok", Record(TRUE, <<>>)),
      HistoryResponse("ok", Record(TRUE, << Node(TRUE, << Ref("a.png") >>) >>)) }

\* a few answers of each kind
SmallHistoryResponses ==
    { HistoryResponse("error", NoHistory), HistoryResponse("nokey", NoHistory),
      HistoryResponse("ok", NoHistory) }
    \cup ConcHistoryResponses

\* ---- job objects handed to handler(job)
Job(hasInput, hasWorkflow) ==
    [hasInput |-> hasInput, hasWorkflow |-> hasWorkflow, images |-> <<>>]

ImageJob(images) == [hasInput |-> TRUE, hasWorkflow |-> TRUE, images |-> images]

Jobs == { Job(FALSE, FALSE), Job(TRUE, FALSE), Job(TRUE, TRUE) }

ConcJobs == { Job(TRUE, TRUE) }

InputJobs == { ImageJob(s) : s \in SeqsUpTo(Images, MaxImages) }

\* a few answers of each kind for the jobs with input images
InputPromptResponses == { Response("error", Absent), Response("ok", "p1") }

InputMessages ==
    { Msg("binary", Absent, Absent, Absent, Absent, Absent),
      Msg("text", "invalid", Absent, Absent, Absent, Absent),
      Msg("text", "object", "executing", "object", Null, "p1") }

\* ---- the value handler returns
NoResult == [keys |-> {}, error |-> Absent, images |-> <<>>]

\* ------------------------------------------------------------------ state
VARIABLES running, inv, svc, files

vars == <<running, inv, svc, files>>

Frame0 ==
    [ pc            |-> "Idle",
      images        |-> <<>>, \* job_input.get("images", [])
      nSaved        |-> 0,    \* images the save loop has been through
      nProbes       |-> 0,    \* probes issued by the running readiness loop
      probeOk       |-> FALSE,
      ws            |-> "none",
      prompt_id     |-> Absent,
      nSubmit       |-> 0,
      lastMsg       |-> NoMsg,
      nRecv         |-> 0,
      nHistory      |-> 0,
      historyAnswer |-> "none", \* what GET /history answered
      history       |-> NoHistory,
      fetched       |-> <<>>,
      output_images |-> <<>>,
      result        |-> NoResult,
      error         |-> "none",
      failedFrom    |-> "none" ]

\* ---- orchestrator state of a program position
State(pc) ==
    CASE pc \in {"Idle", "Save"}                 -> "Idle"
      [] pc = "Probe"                            -> "AwaitingReadiness"
      [] pc \in {"Connect", "Queue"}             -> "Submitted"
      [] pc = "Wait"                             -> "AwaitingCompletion"
      [] pc \in {"Close", "History", "Collect"}  -> "CollectingArtifacts"
      [] pc = "Done"                             -> "Done"
      [] pc = "Failed"                           -> "Failed"

\* an uncaught exception leaves handler
Raise(f, err) ==
    [f EXCEPT !.pc = "Failed", !.error = err, !.failedFrom = State(f.pc)]

Init ==
    /\ running = {1}
    /\ inv = [i \in Procs |-> Frame0]
    /\ svc = [i \in Procs |-> "none"]
    /\ files = [p \in Paths |-> NoFile]

InitConc ==
    /\ running = Procs
    /\ inv = [i \in Procs |-> Frame0]
    /\ svc = [i \in Procs |-> "none"]
    /\ files = [p \in Paths |-> NoFile]

\* the input directory may hold files of earlier jobs
InitInput ==
    /\ running = {1}
    /\ inv = [i \in Procs |-> Frame0]
    /\ svc = [i \in Procs |-> "none"]
    /\ \E old \in {NoFile, File(<< 9 >>)} :
         files = [p \in Paths |-> IF p = Join(INPUT_DIR, << "a.png" >>)
                                  THEN old ELSE NoFile]

\* ------------------------------------------------------------- exceptions
BadJob == "KeyError: job input"
BadImage == "binascii.Error"
WriteFailed == "OSError: open"
ServiceUnavailable == "RuntimeError: ComfyUI not responding"
ConnectFailed == "WebSocketException: connect"
SubmissionFailed == "queue_prompt raised"
ChannelClosed == "WebSocketException: recv"
ProtocolError == "wait_for_execution raised on a message"
HistoryFailed == "get_history raised"
NoOutputs == "KeyError: outputs"
FetchFailed == "get_image raised"

\* ------------------------------------------------------- code's decisions
\* for _ in range(120): ... else: raise
LoopExhaustedEarly(n) == n = MaxAttempts - 1

LoopExhausted(n) == n = MaxAttempts

\* the body of wait_for_execution's loop for one received message:
\* "continue" (next recv), "return", or "raise" (an exception leaves it)
OnMessageAnyJob(msg, tracked) ==
    IF msg.kind # "text" THEN "continue"
    ELSE IF msg.json # "object" \/ msg.type = Absent THEN "raise"
    ELSE IF msg.type # "executing" THEN "continue"
    ELSE IF msg.data = Absent \/ msg.node = Absent THEN "raise"
    ELSE IF msg.node # Null THEN "continue"
    ELSE "return"

OnMessageAnyNode(msg, tracked) ==
    IF msg.kind # "text" THEN "continue"
    ELSE IF msg.json # "object" \/ msg.type = Absent THEN "raise"
    ELSE IF msg.type # "executing" THEN "continue"
    ELSE IF msg.data = Absent \/ msg.pid = Absent THEN "raise"
    ELSE IF msg.pid = tracked THEN "return"
    ELSE "continue"

OnMessageAnyType(msg, tracked) ==
    IF msg.kind # "text" THEN "continue"
    ELSE IF msg.json # "object" \/ msg.type = Absent THEN "raise"
    ELSE IF msg.data = Absent \/ msg.node = Absent THEN "raise"
    ELSE IF msg.node # Null THEN "continue"
    ELSE IF msg.pid = Absent THEN "raise"
    ELSE IF msg.pid = tracked THEN "return"
    ELSE "continue"

OnMessageLenient(msg, tracked) ==
    IF msg.kind # "text" \/ msg.json # "object" THEN "continue"
    ELSE IF msg.type # "executing" THEN "continue"
    ELSE IF msg.node = Null /\ msg.pid = tracked THEN "return"
    ELSE "continue"

OnMessage(msg, tracked) ==
    IF msg.kind # "text" THEN "continue"                 \* isinstance(msg, str)
    ELSE IF msg.json # "object" THEN "raise"             \* json.loads(msg)
    ELSE IF msg.type = Absent THEN "raise"               \* data["type"]
    ELSE IF msg.type # "executing" THEN "continue"
    ELSE IF msg.data = Absent THEN "raise"               \* data["data"]
    ELSE IF msg.node = Absent THEN "raise"               \* data["data"]["node"]
    ELSE IF msg.node # Null THEN "continue"              \* and short-circuits
    ELSE IF msg.pid = Absent THEN "raise"                \* ["prompt_id"]
    ELSE IF msg.pid = tracked THEN "return"
    ELSE "continue"

\* the references the nested loops of handler visit, in visiting order
RECURSIVE ArtifactRefsFirstOnly(_)
ArtifactRefsFirstOnly(outputs) ==
    IF outputs = <<>> THEN <<>>
    ELSE (IF Head(outputs).hasImages /\ Head(outputs).images # <<>>
          THEN << Head(Head(outputs).images) >> ELSE <<>>)
         \o ArtifactRefsFirstOnly(Tail(outputs))

RECURSIVE ArtifactRefs(_)
ArtifactRefs(outputs) ==
    IF outputs = <<>> THEN <<>>
    ELSE (IF Head(outputs).hasImages THEN Head(outputs).images ELSE <<>>)
         \o ArtifactRefs(Tail(outputs))

\* the entry appended to output_images for one retrieved reference
Entry(ref, raw) == [name |-> ref.filename, data |-> B64Encode(raw)]

\* the value handler returns after the loops
ResultAlwaysImages(output_images) ==
    [keys |-> {"images"}, error |-> Absent, images |-> output_images]

ResultWithStatus(output_images) ==
    [keys   |-> {"images", "error"},
     error  |-> IF output_images = <<>> THEN "No images generated" ELSE "",
     images |-> output_images]

Result(output_images) ==
    IF output_images = <<>>
    THEN [keys |-> {"error"}, error |-> "No images generated", images |-> <<>>]
    ELSE [keys |-> {"images"}, error |-> Absent, images |-> output_images]

\* the frame after the for-else of the readiness loop
ProbesExhaustedProceed(f) == [f EXCEPT !.pc = "Connect"]

ProbesExhausted(f) == Raise(f, ServiceUnavailable)

\* the frame after json.loads(r.read())[prompt_id] found no such key
EntryMissingEmpty(f) == [f EXCEPT !.history = Record(TRUE, <<>>), !.pc = "Collect"]

EntryMissing(f) == Raise(f, HistoryFailed)

\* the frame after a request to the service raised
SubmitRaisedRetry(f) == f

SubmitRaised(f) == Raise(f, SubmissionFailed)

FetchRaisedSkip(f) == f

FetchRaised(f) == Raise(f, FetchFailed)

\* the frame after ws.recv() raised inside wait_for_execution
ChannelRaisedReconnect(f) == [f EXCEPT !.pc = "Connect"]

ChannelRaisedProceed(f) == [f EXCEPT !.pc = "Close"]

ChannelRaised(f) == Raise(f, ChannelClosed)

\* the frame after a probe answered: break leaves the loop, whose counter is
\* dead from then on
ProbeSucceededSubmitFirst(f) ==
    [f EXCEPT !.probeOk = TRUE, !.nProbes = 0, !.pc = "Queue"]

ProbeSucceeded(f) == [f EXCEPT !.probeOk = TRUE, !.nProbes = 0, !.pc = "Connect"]

\* the frame after wait_for_execution returned
ListenerReturnedResubmit(f) == [f EXCEPT !.pc = "Queue"]

ListenerReturned(f) == [f EXCEPT !.pc = "Close"]

\* ----------------------------------------------------------------- steps
Step(i, f) ==
    /\ i \in running
    /\ inv' = [inv EXCEPT ![i] = f]
    /\ UNCHANGED <<running, svc, files>>

\* handler.py 76-83: read the job
Start(i, jobs) ==
    /\ inv[i].pc = "Idle"
    /\ \E job \in jobs :
         Step(i, IF job.hasInput /\ job.hasWorkflow
                 THEN [inv[i] EXCEPT !.images = job.images,
                                     !.pc = IF job.images = <<>>
                                            THEN "Probe" ELSE "Save"]
                 ELSE Raise(inv[i], BadJob))

\* handler.py 85-92: one round of the save loop
SaveImage(i) ==
    LET k    == inv[i].nSaved + 1
        img  == inv[i].images[k]
        data == B64Decode(img.image)
        path == Join(INPUT_DIR, img.name)
    IN  /\ i \in running
        /\ inv[i].pc = "Save"
        /\ UNCHANGED <<running, svc>>
        /\ \/ /\ ~data.ok
              /\ inv' = [inv EXCEPT ![i] = Raise(@, BadImage)]
              /\ UNCHANGED files
           \/ /\ data.ok
              /\ inv' = [inv EXCEPT ![i] = Raise(@, WriteFailed)]
              /\ UNCHANGED files
           \/ /\ data.ok
              /\ files' = [files EXCEPT ![path] = File(data.raw)]
              /\ inv' = [inv EXCEPT ![i] =
                           [inv[i] EXCEPT !.nSaved = k,
                                          !.pc = IF k = Len(inv[i].images)
                                                 THEN "Probe" ELSE "Save"]]

\* handler.py 95-102: one readiness probe
Probe(i) ==
    /\ inv[i].pc = "Probe"
    /\ ~LoopExhausted(inv[i].nProbes)
    /\ \E ok \in BOOLEAN :
         LET f == [inv[i] EXCEPT !.nProbes = @ + 1]
         IN  Step(i, IF ok THEN ProbeSucceeded(f)
                     ELSE IF LoopExhausted(f.nProbes)
                          THEN ProbesExhausted(f)
                          ELSE f)

\* handler.py 105-107: open the push channel for CLIENT_ID
Connect(i) ==
    /\ inv[i].pc = "Connect"
    /\ \E ok \in BOOLEAN :
         Step(i, IF ok THEN [inv[i] EXCEPT !.ws = "open", !.pc = "Queue"]
                 ELSE Raise(inv[i], ConnectFailed))

\* handler.py 110, 35-44: submit the workflow
QueuePrompt(i, responses) ==
    /\ inv[i].pc = "Queue"
    /\ \E res \in responses :
         LET f == [inv[i] EXCEPT !.nSubmit = @ + 1]
         IN  Step(i, IF res.status # "ok" \/ res.prompt_id = Absent
                     THEN SubmitRaised(f)
                     ELSE [f EXCEPT !.prompt_id = res.prompt_id, !.pc = "Wait"])

\* handler.py 113, 47-54: one ws.recv() that delivers a message
Recv(i, messages) ==
    /\ inv[i].pc = "Wait"
    /\ inv[i].nRecv < MaxRecv
    /\ \E msg \in messages :
         LET f   == [inv[i] EXCEPT !.lastMsg = msg, !.nRecv = @ + 1]
             out == OnMessage(msg, f.prompt_id)
         IN  Step(i, CASE out = "continue" -> f
                       [] out = "return"   -> ListenerReturned(f)
                       [] out = "raise"    -> Raise(f, ProtocolError))

\* handler.py 49: ws.recv() raises (the channel closed or broke)
RecvError(i) ==
    /\ inv[i].pc = "Wait"
    /\ Step(i, ChannelRaised(inv[i]))

\* handler.py 114
Close(i) ==
    /\ inv[i].pc = "Close"
    /\ Step(i, [inv[i] EXCEPT !.ws = "closed", !.pc = "History"])

\* handler.py 116, 57-60, and the read of history["outputs"] at 121
GetHistory(i, responses) ==
    /\ inv[i].pc = "History"
    /\ \E res \in responses :
         LET f == [inv[i] EXCEPT !.nHistory = @ + 1,
                                 !.historyAnswer = res.status]
         IN  Step(i, IF res.status = "error" THEN Raise(f, HistoryFailed)
                     ELSE IF res.status = "nokey" THEN EntryMissing(f)
                     ELSE IF ~res.record.hasOutputs
                          THEN Raise([f EXCEPT !.history = res.record], NoOutputs)
                          ELSE [f EXCEPT !.history = res.record, !.pc = "Collect"])

\* handler.py 124-133, 63-71: retrieve the next reference
GetImage(i) ==
    LET refs == ArtifactRefs(inv[i].history.outputs)
        k    == Len(inv[i].fetched) + 1
    IN  /\ inv[i].pc = "Collect"
        /\ k <= Len(refs)
        /\ \E ok \in BOOLEAN, raw \in Payloads :
             LET f == [inv[i] EXCEPT !.fetched = Append(@, refs[k])]
             IN  Step(i, IF ok
                         THEN [f EXCEPT !.output_images = Append(@, Entry(refs[k], raw))]
                         ELSE FetchRaised(f))

\* handler.py 135-140
Return(i) ==
    LET refs == ArtifactRefs(inv[i].history.outputs)
    IN  /\ inv[i].pc = "Collect"
        /\ Len(inv[i].fetched) = Len(refs)
        /\ Step(i, [inv[i] EXCEPT !.result = Result(inv[i].output_images),
                                  !.pc = "Done"])

\* the service finishes the job it accepted from invocation i and emits the
\* job's terminal signal to the client identity: the signal reaches the
\* invocation's channel if that is connected and is lost if it is not
ServiceFinish(i) ==
    /\ i \in running
    /\ inv[i].nSubmit = 1
    /\ inv[i].prompt_id # Absent
    /\ svc[i] = "none"
    /\ svc' = [svc EXCEPT ![i] = IF inv[i].ws = "open" THEN "sent" ELSE "lost"]
    /\ UNCHANGED <<running, inv, files>>

\* what the channel of invocation i can deliver: its own job's terminal
\* signal only once the service has sent it
Deliverable(i) ==
    { m \in Messages :
        (m.type = "executing" /\ m.node = Null /\ m.pid = inv[i].prompt_id)
        => svc[i] = "sent" }

Next ==
    \E i \in Procs :
        \/ Start(i, Jobs)
        \/ Probe(i)
        \/ Connect(i)
        \/ QueuePrompt(i, PromptResponses)
        \/ Recv(i, Messages)
        \/ RecvError(i)
        \/ Close(i)
        \/ GetHistory(i, HistoryResponses)
        \/ GetImage(i)
        \/ Return(i)

NextConc ==
    \E i \in Procs :
        \/ Start(i, ConcJobs)
        \/ Probe(i)
        \/ Connect(i)
        \/ QueuePrompt(i, ConcPromptResponses)
        \/ Recv(i, ConcMessages)
        \/ RecvError(i)
        \/ Close(i)
        \/ GetHistory(i, ConcHistoryResponses)
        \/ GetImage(i)
        \/ Return(i)

NextInput ==
    \E i \in Procs :
        \/ Start(i, InputJobs)
        \/ SaveImage(i)
        \/ Probe(i)
        \/ Connect(i)
        \/ QueuePrompt(i, InputPromptResponses)
        \/ Recv(i, InputMessages)
        \/ RecvError(i)
        \/ Close(i)
        \/ GetHistory(i, SmallHistoryResponses)
        \/ GetImage(i)
        \/ Return(i)

Spec == Init /\ [][Next]_vars

SpecInput == InitInput /\ [][NextInput]_vars

SpecConc == InitConc /\ [][NextConc]_vars

\* the steps handler takes by itself once the service has answered; when
\* the service finishes a job and what the push channel delivers is left to
\* the service
HandlerStep(i) ==
    \/ Start(i, Jobs)
    \/ Probe(i)
    \/ Connect(i)
    \/ QueuePrompt(i, PromptResponses)
    \/ Close(i)
    \/ GetHistory(i, SmallHistoryResponses)
    \/ GetImage(i)
    \/ Return(i)

NextLive ==
    \E i \in Procs :
        \/ HandlerStep(i)
        \/ ServiceFinish(i)
        \/ Recv(i, Deliverable(i))
        \/ RecvError(i)

SpecLive ==
    Init /\ [][NextLive]_vars /\ \A i \in Procs : WF_vars(HandlerStep(i))


\* ------------------------------------------------------------ properties
\* what the claims read off a step: invocation i received a message
Received(i) == inv[i].pc = "Wait" /\ inv'[i].nRecv = inv[i].nRecv + 1

WellFormed(m) == m.kind = "text" /\ m.json = "object" /\ m.type # Absent

\* the terminal signal of job P, spelled out
TerminalFor(m, P) ==
    /\ WellFormed(m)
    /\ m.type = "executing"
    /\ m.data # Absent
    /\ m.node = Null
    /\ m.pid = P

\* the references of a history record in its order, folded from the last node
RECURSIVE ExpectedRefs(_)
ExpectedRefs(outputs) ==
    IF Len(outputs) = 0 THEN <<>>
    ELSE ExpectedRefs(SubSeq(outputs, 1, Len(outputs) - 1))
         \o (IF outputs[Len(outputs)].hasImages
             THEN outputs[Len(outputs)].images ELSE <<>>)

C1_Ignorable(m, P) ==
    \/ m.kind = "binary"
    \/ WellFormed(m) /\ m.type # "executing"
    \/ /\ WellFormed(m) /\ m.type = "executing" /\ m.data # Absent
       /\ m.node # Absent /\ m.pid # Absent /\ m.pid # P
    \/ /\ WellFormed(m) /\ m.type = "executing" /\ m.data # Absent
       /\ m.node \notin {Absent, Null}

\* C1: while the listener tracks job P, a message whose type is not
\* "executing", an "executing" message for another prompt_id (node null or
\* not), an "executing" message with a non-null node (prompt_id equal to P or
\* not) and a binary message leave the listener in its receive loop: the
\* step changes nothing but the record of what was received.
C1_NonTerminalIgnored ==
    [][\A i \in Procs :
         (Received(i) /\ C1_Ignorable(inv'[i].lastMsg, inv[i].prompt_id))
         => /\ inv'[i].pc = "Wait"
            /\ inv'[i] = [inv[i] EXCEPT !.lastMsg = inv'[i].lastMsg,
                                        !.nRecv = @ + 1]]_vars

C1_Witness ==
    /\ inv[1].pc = "Wait"
    /\ inv[1].nRecv >= 2
    /\ inv[1].lastMsg.type = "executing"
    /\ inv[1].lastMsg.node = "n1"
    /\ inv[1].lastMsg.pid = inv[1].prompt_id

\* C2: the listener returns at most once, and exactly on the first received
\* message that is "executing" with node null and the tracked prompt_id: a
\* return is a receipt of that signal, every receipt of that signal returns,
\* and nothing is received outside the loop or after the return.
C2_ReturnsOnFirstTerminal ==
    [][\A i \in Procs :
         /\ (inv[i].pc = "Wait" /\ inv'[i].pc \notin {"Wait", "Failed"})
            => /\ Received(i)
               /\ TerminalFor(inv'[i].lastMsg, inv[i].prompt_id)
               /\ inv'[i].pc = "Close"
         /\ (Received(i) /\ TerminalFor(inv'[i].lastMsg, inv[i].prompt_id))
            => inv'[i].pc = "Close"
         /\ (inv'[i].nRecv # inv[i].nRecv \/ inv'[i].lastMsg # inv[i].lastMsg)
            => Received(i)
         /\ inv[i].pc # "Wait" /\ inv'[i].pc = "Wait"
            => inv[i].pc = "Queue" /\ inv[i].nRecv = 0]_vars

C2_Witness ==
    /\ inv[1].pc = "Close"
    /\ inv[1].nRecv = MaxRecv
    /\ TerminalFor(inv[1].lastMsg, inv[1].prompt_id)

\* C3: when every retrieval succeeded and the handler returned, get_image
\* was called once per artifact reference of the history record, in order,
\* and the result carries one entry per reference, named by its filename.
C3_OnePerReference ==
    \A i \in Procs :
      inv[i].pc = "Done" =>
        LET refs == ExpectedRefs(inv[i].history.outputs)
        IN  /\ inv[i].fetched = refs
            /\ Len(inv[i].result.images) = Len(refs)
            /\ \A k \in 1..Len(refs) :
                 inv[i].result.images[k].name = refs[k].filename
            /\ Len(refs) > 0 => inv[i].result.keys = {"images"}

C3_Witness ==
    /\ inv[1].pc = "Done"
    /\ Len(inv[1].history.outputs) = 2
    /\ ~inv[1].history.outputs[1].hasImages
    /\ Len(inv[1].result.images) = 2
    /\ inv[1].result.images[1].name # inv[1].result.images[2].name

\* C4: a history record without any artifact reference leads to no
\* retrieval and no failure, and the handler returns
\* {"error": "No images generated"}.
C4_EmptyOutcome ==
    \A i \in Procs :
      (inv[i].history.hasOutputs /\ ExpectedRefs(inv[i].history.outputs) = <<>>)
      => /\ inv[i].pc \in {"Collect", "Done"}
         /\ inv[i].fetched = <<>>
         /\ inv[i].pc = "Done"
            => inv[i].result = [keys |-> {"error"},
                                error |-> "No images generated",
                                images |-> <<>>]

C4_Witness ==
    /\ inv[1].pc = "Done"
    /\ Len(inv[1].history.outputs) = 2
    /\ inv[1].history.outputs[1].hasImages
    /\ ~inv[1].history.outputs[2].hasImages
    /\ inv[1].result.keys = {"error"}

\* C5: no probe is issued once a probe has succeeded, and the handler fails
\* with "ComfyUI not responding" only with exactly MaxAttempts probes issued,
\* none of which succeeded.
C5_ProbeBudget ==
    [][\A i \in Procs :
         /\ inv[i].probeOk => inv'[i].nProbes = inv[i].nProbes
         /\ inv'[i].error = ServiceUnavailable
            => /\ inv'[i].nProbes = MaxAttempts
               /\ ~inv'[i].probeOk
               /\ inv'[i].failedFrom = "AwaitingReadiness"
         /\ (inv[i].pc = "Probe" /\ inv'[i].pc = "Failed")
            => inv'[i].error = ServiceUnavailable]_vars

C5_Witness ==
    /\ inv[1].pc = "Failed"
    /\ inv[1].error = ServiceUnavailable
    /\ inv[1].nProbes = MaxAttempts

\* C6: a failed retrieval ends the invocation in Failed at once: it is the
\* last retrieval attempted, no value is returned and the entries collected
\* so far are not handed out.
C6_NoPartialResult ==
    \A i \in Procs :
      /\ Len(inv[i].output_images) # Len(inv[i].fetched)
         => /\ inv[i].pc = "Failed"
            /\ inv[i].error = FetchFailed
            /\ Len(inv[i].fetched) = Len(inv[i].output_images) + 1
      /\ inv[i].pc = "Failed" => inv[i].result = NoResult
      /\ inv[i].pc = "Done" => Len(inv[i].output_images) = Len(inv[i].fetched)

C6_Witness ==
    /\ inv[1].pc = "Failed"
    /\ inv[1].error = FetchFailed
    /\ Len(inv[1].output_images) = 1
    /\ Len(inv[1].fetched) = 2
    /\ Len(ExpectedRefs(inv[1].history.outputs)) = 3

Rank(s) ==
    CASE s = "Idle"                -> 0
      [] s = "AwaitingReadiness"   -> 1
      [] s = "Submitted"           -> 2
      [] s = "AwaitingCompletion"  -> 3
      [] s = "CollectingArtifacts" -> 4
      [] s = "Done"                -> 5
      [] s = "Failed"              -> 6

C7_CanFail(i) == ENABLED (Next /\ inv'[i].pc = "Failed")

\* C7: an invocation moves through Idle, AwaitingReadiness, Submitted,
\* AwaitingCompletion, CollectingArtifacts, Done one state at a time and
\* never backwards; nothing leaves Done or Failed; and in each of the five
\* non-terminal states there is a position from which a step to Failed is
\* possible.
C7_StateOrder ==
    /\ [][\A i \in Procs :
            LET s == State(inv[i].pc)
                t == State(inv'[i].pc)
            IN  /\ s \in {"Done", "Failed"} => inv'[i] = inv[i]
                /\ s \notin {"Done", "Failed"}
                   => t = s \/ t = "Failed" \/ Rank(t) = Rank(s) + 1
                /\ t = "Failed" /\ s # "Failed" => inv'[i].failedFrom = s]_vars
    /\ [](\A i \in running :
            /\ inv[i].pc \in {"Idle", "Connect", "Queue", "Wait", "History"}
               => C7_CanFail(i)
            /\ inv[i].pc = "Probe" /\ inv[i].nProbes = MaxAttempts - 1
               => C7_CanFail(i)
            /\ (inv[i].pc = "Collect"
                /\ Len(inv[i].fetched) < Len(ExpectedRefs(inv[i].history.outputs)))
               => C7_CanFail(i))

C7_Witness ==
    /\ inv[1].pc = "Done"
    /\ inv[1].probeOk
    /\ inv[1].ws = "closed"
    /\ inv[1].nSubmit = 1
    /\ inv[1].nRecv >= 1
    /\ inv[1].nHistory = 1
    /\ inv[1].failedFrom = "none"

C8_Submitted(i) == inv[i].nSubmit = 1 /\ inv[i].error # SubmissionFailed

\* C8: whenever queue_prompt returned, the job identifier it returned is
\* non-empty, and it is the one the listener matches and the history fetch
\* uses.
C8_IdentifierNonEmpty ==
    [][\A i \in Procs :
         /\ C8_Submitted(i)' => inv'[i].prompt_id \notin {Absent, ""}
         /\ C8_Submitted(i) => inv'[i].prompt_id = inv[i].prompt_id]_vars

C9_Requests(f) == <<f.nProbes, f.nSubmit, f.nRecv, f.nHistory, f.fetched>>

\* C9: the workflow is submitted at most once, the history record fetched
\* at most once and each reference retrieved at most once; a request that
\* fails leaves the invocation in Failed, which issues no further request.
C9_NoRetry ==
    [][\A i \in Procs :
         /\ inv'[i].nSubmit <= 1
         /\ inv'[i].nHistory <= 1
         /\ Len(inv'[i].fetched) <= Len(ExpectedRefs(inv'[i].history.outputs))
         /\ \A k \in 1..Len(inv'[i].fetched) :
              inv'[i].fetched[k] = ExpectedRefs(inv'[i].history.outputs)[k]
         /\ (inv'[i].nSubmit = 1 /\ inv'[i].prompt_id = Absent)
            => inv'[i].pc = "Failed" /\ inv'[i].error = SubmissionFailed
         /\ (inv'[i].nHistory = 1 /\ ~inv'[i].history.hasOutputs)
            => inv'[i].pc = "Failed" /\ inv'[i].error \in {HistoryFailed, NoOutputs}
         /\ Len(inv'[i].fetched) > Len(inv'[i].output_images)
            => inv'[i].pc = "Failed" /\ inv'[i].error = FetchFailed
         /\ (inv[i].pc = "Wait" /\ inv'[i].lastMsg = inv[i].lastMsg
             /\ inv'[i].nRecv = inv[i].nRecv /\ inv'[i] # inv[i])
            => inv'[i].pc = "Failed" /\ inv'[i].error = ChannelClosed
         /\ inv[i].pc = "Failed"
            => C9_Requests(inv'[i]) = C9_Requests(inv[i])]_vars

C9_Witness ==
    /\ inv[1].pc = "Failed"
    /\ inv[1].error = HistoryFailed
    /\ inv[1].nSubmit = 1
    /\ inv[1].nHistory = 1
    /\ inv[1].fetched = <<>>

\* C10: with invocations running side by side on one client identity, the
\* terminal signal of another invocation's job leaves an invocation in its
\* receive loop; an invocation starts collecting only on the terminal
\* signal that carries its own job identifier.
C10_NoCrossJobCompletion ==
    [][\A i \in Procs :
         /\ \A j \in Procs \ {i} :
              (/\ Received(i)
               /\ inv[j].prompt_id # Absent
               /\ inv[j].prompt_id # inv[i].prompt_id
               /\ TerminalFor(inv'[i].lastMsg, inv[j].prompt_id))
              => inv'[i].pc = "Wait"
         /\ (State(inv[i].pc) # "CollectingArtifacts"
             /\ State(inv'[i].pc) = "CollectingArtifacts")
            => /\ inv'[i].lastMsg.node = Null
               /\ inv'[i].lastMsg.pid = inv[i].prompt_id
               /\ inv'[i].prompt_id = inv[i].prompt_id]_vars

C10_Witness ==
    /\ running = Procs
    /\ inv[1].pc = "Wait"
    /\ inv[2].pc = "Wait"
    /\ inv[1].prompt_id # inv[2].prompt_id
    /\ TerminalFor(inv[1].lastMsg, inv[2].prompt_id)
    /\ TerminalFor(inv[2].lastMsg, inv[1].prompt_id)

\* C11: an invocation leaves AwaitingCompletion only on the receipt of its
\* terminal signal (to CollectingArtifacts) or on a channel close or error
\* (to Failed); with every request of handler answered, an invocation
\* reaches its wait or an end, and one that has left its wait reaches Done
\* or Failed.  Nothing forces a step out of the wait.
C11_OnlySignalOrCloseEndsWait ==
    /\ [][\A i \in Procs :
            (inv[i].pc = "Wait" /\ inv'[i].pc # "Wait")
            => \/ /\ Received(i)
                  /\ TerminalFor(inv'[i].lastMsg, inv[i].prompt_id)
                  /\ State(inv'[i].pc) = "CollectingArtifacts"
               \/ /\ inv'[i].pc = "Failed"
                  /\ inv'[i].error \in {ChannelClosed, ProtocolError}]_vars
    /\ \A i \in Procs :
         /\ (i \in running) ~> (inv[i].pc \in {"Wait", "Done", "Failed"})
         /\ (inv[i].pc \in {"Close", "History", "Collect"})
            ~> (inv[i].pc \in {"Done", "Failed"})

C11_Witness ==
    /\ inv[1].pc = "Wait"
    /\ inv[1].nRecv = MaxRecv
    /\ inv[1].lastMsg.kind = "text"
    /\ inv[1].lastMsg.node = Null
    /\ inv[1].lastMsg.pid \notin {Absent, inv[1].prompt_id}

\* C12: the push channel is connected before the workflow is submitted and
\* the tracked identifier is set only by the submission; so the channel is
\* open whenever the service emits the job's terminal signal before the
\* listener has returned, and no terminal signal is lost.
C12_ConnectedBeforeSubmit ==
    \A i \in Procs :
      /\ inv[i].nSubmit > 0 => inv[i].ws # "none"
      /\ inv[i].prompt_id # Absent => inv[i].nSubmit = 1
      /\ inv[i].pc \in {"Queue", "Wait"} => inv[i].ws = "open"
      /\ svc[i] # "lost"
      /\ svc[i] = "sent" => inv[i].prompt_id # Absent

C12_Witness ==
    /\ inv[1].pc = "Wait"
    /\ inv[1].nRecv = 0
    /\ inv[1].ws = "open"
    /\ svc[1] = "sent"

\* C13: the history record is requested once the listener has returned on
\* the tracked job's terminal signal and not before: there is no request
\* during the wait, and none after the listener failed.
C13_HistoryAfterSignal ==
    [][\A i \in Procs :
         /\ inv'[i].nHistory # inv[i].nHistory
            => /\ inv[i].pc = "History"
               /\ inv[i].nHistory = 0
               /\ inv[i].nRecv >= 1
               /\ TerminalFor(inv[i].lastMsg, inv[i].prompt_id)
         /\ inv'[i].pc = "Wait" => inv'[i].nHistory = 0
         /\ inv'[i].error \in {ChannelClosed, ProtocolError}
            => inv'[i].nHistory = 0 /\ inv'[i].pc = "Failed"]_vars

C13_Witness ==
    /\ inv[1].nHistory = 1
    /\ inv[1].historyAnswer = "ok"
    /\ inv[1].nRecv >= 2
    /\ TerminalFor(inv[1].lastMsg, inv[1].prompt_id)

C14_LastWith(images, name) ==
    CHOOSE k \in 1..Len(images) :
        /\ images[k].name = name
        /\ \A j \in (k + 1)..Len(images) : images[j].name # name

\* the input location holds raw under name
C14_Holds(fs, name, raw) ==
    \E p \in DOMAIN fs :
        /\ p = INPUT_DIR \o name
        /\ fs[p] = File(raw)

\* C14: when an invocation enters AwaitingReadiness the input location holds,
\* under every supplied image name, the decoded payload of the last supplied
\* image of that name, whatever was there before; from then on the
\* invocation writes no file.
C14_PersistedBeforeProbe ==
    [][\A i \in Procs :
         /\ (inv[i].pc # "Probe" /\ inv'[i].pc = "Probe")
            => \A k \in 1..Len(inv'[i].images) :
                 LET name == inv'[i].images[k].name
                     last == inv'[i].images[C14_LastWith(inv'[i].images, name)]
                 IN  C14_Holds(files', name, B64Decode(last.image).raw)
         /\ (inv'[i] # inv[i] /\ State(inv[i].pc) # "Idle")
            => files' = files]_vars

C15_Unreadable(m) ==
    /\ m.kind = "text"
    /\ \/ m.json # "object"
       \/ m.type = Absent
       \/ /\ m.type = "executing"
          /\ \/ m.data = Absent
             \/ m.node = Absent
             \/ m.node = Null /\ m.pid = Absent

\* C15: a text message that is not valid JSON, has no "type", or is an
\* "executing" message without "data", without "node", or with a null node
\* and no "prompt_id", makes the listener raise: the invocation is Failed
\* from AwaitingCompletion and the history record is never requested.
C15_UnreadableMessageFails ==
    [][\A i \in Procs :
         /\ (Received(i) /\ C15_Unreadable(inv'[i].lastMsg))
            => /\ inv'[i].pc = "Failed"
               /\ inv'[i].error = ProtocolError
               /\ inv'[i].failedFrom = "AwaitingCompletion"
               /\ inv'[i].nHistory = 0
         /\ inv[i].error = ProtocolError
            => inv'[i].nHistory = 0 /\ inv'[i].pc = "Failed"]_vars

C15_Witness ==
    /\ inv[1].pc = "Failed"
    /\ inv[1].error = ProtocolError
    /\ inv[1].nRecv >= 2
    /\ inv[1].lastMsg.type = "executing"
    /\ inv[1].lastMsg.node = Null
    /\ inv[1].lastMsg.pid = Absent

\* C16: a history response without an entry for the tracked identifier makes
\* get_history raise: the invocation is Failed, no artifact is retrieved and
\* no value, neither an "images" list nor the empty outcome, is returned.
C16_MissingEntryFails ==
    \A i \in Procs :
      inv[i].historyAnswer = "nokey"
      => /\ inv[i].pc = "Failed"
         /\ inv[i].error = HistoryFailed
         /\ inv[i].failedFrom = "CollectingArtifacts"
         /\ inv[i].fetched = <<>>
         /\ inv[i].output_images = <<>>
         /\ inv[i].result = NoResult

C16_Witness ==
    /\ inv[1].historyAnswer = "nokey"
    /\ inv[1].nHistory = 1
    /\ inv[1].pc = "Failed"
    /\ inv[1].ws = "closed"

\* C17: the channel is opened and the workflow submitted only after a probe
\* has succeeded; with the whole attempt budget failed the invocation is
\* Failed without a connection, a submission, a history request or a
\* retrieval.
C17_NothingBeforeReadiness ==
    \A i \in Procs :
      /\ (inv[i].ws # "none" \/ inv[i].nSubmit > 0 \/ inv[i].nRecv > 0
          \/ inv[i].nHistory > 0 \/ inv[i].fetched # <<>>)
         => inv[i].probeOk
      /\ (inv[i].nProbes = MaxAttempts /\ ~inv[i].probeOk)
         => /\ inv[i].pc = "Failed"
            /\ inv[i].error = ServiceUnavailable
            /\ inv[i].ws = "none"
            /\ inv[i].nSubmit = 0
            /\ inv[i].prompt_id = Absent
            /\ inv[i].nHistory = 0
            /\ inv[i].fetched = <<>>

C17_Witness ==
    /\ inv[1].nProbes = MaxAttempts
    /\ ~inv[1].probeOk
    /\ inv[1].failedFrom = "AwaitingReadiness"
    /\ inv[1].ws = "none"
    /\ inv[1].nSubmit = 0

\* C18: an invocation that opened the push channel has closed it when it
\* ends, in Done and in Failed alike; on the way to Done the channel is
\* closed once the listener has returned and before the history request.
C18_ChannelClosedAtEnd ==
    \A i \in Procs :
      /\ inv[i].pc \in {"Done", "Failed"} => inv[i].ws # "open"
      /\ inv[i].nHistory > 0 => inv[i].ws = "closed"

\* C19: handler returns either {"images": L} with L non-empty or
\* {"error": "No images generated"}, never both keys and never an empty
\* "images" list, and returns nothing unless it ends in Done.
C19_ResultShape ==
    \A i \in Procs :
      /\ inv[i].pc = "Done"
         => \/ /\ inv[i].result.keys = {"images"}
               /\ inv[i].result.images # <<>>
               /\ inv[i].result.images = inv[i].output_images
            \/ /\ inv[i].result.keys = {"error"}
               /\ inv[i].result.error = "No images generated"
               /\ inv[i].result.images = <<>>
      /\ inv[i].pc # "Done" => inv[i].result = NoResult

C19_Witness ==
    /\ inv[1].pc = "Done"
    /\ inv[1].result.keys = {"images"}
    /\ Len(inv[1].result.images) = 1
    /\ inv[1].history.outputs = << Node(TRUE, <<>>), Node(TRUE, << Ref("b.png") >>) >>

=============================================================================
